---- MODULE Spec2Model ----
(***************************************************************************)
(* A model of the pixel producers of embedded-graphics and of a sink:      *)
(*   - the Line primitive and its Bresenham iterator (primitives/line.rs), *)
(*   - the BMP image and its row-padded, bottom-up iterator                *)
(*     (image/image_bmp.rs),                                               *)
(*   - two producers chained (tests/chaining.rs),                          *)
(*   - the pixel buffer of the simulator displays (simulator/src/lib.rs).  *)
(* Point arithmetic is exact integer arithmetic: the coordinates explored  *)
(* are far from the i32 limits.                                            *)
(***************************************************************************)
EXTENDS Integers, Sequences, FiniteSets

VARIABLES
    line,       \* the Line descriptor: [start, end, style]
    moved,      \* the Line returned by line.translate(by), or NoLine
    by,         \* the offset handed to translate
    it,         \* the live LineIterator, or NoIter
    src,        \* the descriptor the live LineIterator was created from
    out,        \* the pixels the live LineIterator has returned so far
    ret,        \* what the last call of LineIterator::next returned
    img,        \* the ImageBmp: [width, height, bpp, data, offset, cbits]
    iit,        \* the live ImageBmpIterator, or NoIter
    iout,       \* the pixels the live ImageBmpIterator has returned so far
    iret,       \* what the last call of ImageBmpIterator::next returned
    panicked,   \* TRUE once into_iter has panicked on a bit depth mismatch
    tsum,       \* the sum of the offsets the image was translated by
    ch,         \* the chain of two line producers, or NoChain
    prods,      \* the ImageBmpIterators made from the one image, by name
    disp,       \* the simulator display's PixelData, or NoDisplay
    drawn,      \* what was asked of the display so far, oldest first
    dpanicked   \* TRUE once indexing the display's buffer has panicked

vars ==
    <<line, moved, by, it, src, out, ret, img, iit, iout, iret, panicked,
      tsum, ch, prods, disp, drawn, dpanicked>>

lineVars == <<line, moved, by, it, src, out, ret>>

imgVars == <<img, iit, iout, iret, panicked, tsum>>

simVars == <<disp, drawn, dpanicked>>

-----------------------------------------------------------------------------
(* Bounds of the exploration. *)

\* Line endpoints have both coordinates in -MaxCoord..MaxCoord.
MaxCoord == 2

\* Steps a full run of an iterator may take when computed as an operator.
MaxFuel == 12

Coord == (-MaxCoord)..MaxCoord

\* Option::None of a colour.
None == "None"

\* Option::None of an iterator item: what next returns when it has no pixel.
NoItem == [tag |-> "None"]

\* No call of next has been made yet.
NoCall == [tag |-> "NoCall"]

\* No iterator, line, offset or image has been made yet.
NoIter == [tag |-> "NoIter"]

NoLine == [tag |-> "NoLine"]

NoOffset == [tag |-> "NoOffset"]

NoImage == [tag |-> "NoImage"]

NoChain == [tag |-> "NoChain"]

NoDisplay == [tag |-> "NoDisplay"]

\* The names of the producers made from one image.
Producers == {1, 2}

\* A producer that has not been made yet: no iterator, nothing returned.
NoProducer == [it |-> NoIter, out |-> <<>>, ret |-> NoCall]

\* No producer of the image and no display exist.
NoProducersNoDisplay ==
    /\ prods = [k \in Producers |-> NoProducer]
    /\ disp = NoDisplay
    /\ drawn = <<>>
    /\ dpanicked = FALSE

\* The colours of the colour type the lines are drawn in.
Colors == {"On", "Off"}

-----------------------------------------------------------------------------
(* Geometry *)

Pt(px, py) == [x |-> px, y |-> py]

PointAdd(a, b) == Pt(a.x + b.x, a.y + b.y)

PointSub(a, b) == Pt(a.x - b.x, a.y - b.y)

Points == {Pt(px, py) : px \in Coord, py \in Coord}

\* The offsets translate is called with.
Offsets == {Pt(0, 0), Pt(1, 0), Pt(0, -1), Pt(-2, 1), Pt(3, 2)}

Pixel(pt, col) == [p |-> pt, c |-> col]

Min(a, b) == IF a <= b THEN a ELSE b

Max(a, b) == IF a >= b THEN a ELSE b

Abs(a) == IF a < 0 THEN -a ELSE a

-----------------------------------------------------------------------------
(* Style and the Line descriptor *)

\* Style::default(): no stroke, no fill, width 1.
StyleDefault == [stroke_color |-> None, stroke_width |-> 1, fill_color |-> None]

\* Line::new
LineNew(s, e) == [start |-> s, end |-> e, style |-> StyleDefault]

\* WithStyle::stroke_color
WithStrokeColor(l, col) == [l EXCEPT !.style.stroke_color = col]

\* WithStyle::stroke_width
WithStrokeWidth(l, w) == [l EXCEPT !.style.stroke_width = w]

\* WithStyle::fill_color
WithFillColor(l, col) == [l EXCEPT !.style.fill_color = col]

\* Size::new
Size(w, h) == [width |-> w, height |-> h]

\* Point + Size
PointAddSize(a, sz) == Pt(a.x + sz.width, a.y + sz.height)

\* Size::from_bounding_box, as the test bounding_box pins it down: the
\* line (10, 10)-(20, 20) has size (10, 10) in either direction.
SizeFromBoundingBox(a, b) == Size(Abs(a.x - b.x), Abs(a.y - b.y))

\* top_left that takes start for the top left corner.
LineTopLeftIsStart(l) == l.start

\* Dimensions::top_left
LineTopLeft(l) == Pt(Min(l.start.x, l.end.x), Min(l.start.y, l.end.y))

\* Dimensions::size
LineSize(l) == SizeFromBoundingBox(l.start, l.end)

\* Dimensions::bottom_right
LineBottomRight(l) == PointAddSize(LineTopLeft(l), LineSize(l))

LineTranslateStartOnly(l, d) == [l EXCEPT !.start = PointAdd(l.start, d)]

\* Transform::translate
LineTranslate(l, d) ==
    [l EXCEPT !.start = PointAdd(l.start, d), !.end = PointAdd(l.end, d)]

\* translate_mut that moves start and leaves end where it is.
LineTranslateMutStartOnly(l, d) == [l EXCEPT !.start = PointAdd(l.start, d)]

\* Transform::translate_mut
LineTranslateMut(l, d) ==
    [l EXCEPT !.start = PointAdd(l.start, d), !.end = PointAdd(l.end, d)]

-----------------------------------------------------------------------------
(* The line iterator *)

\* The direction table with the (true, false) row wrong.
LineDirectionWrongRow(l) ==
    IF l.start.x >= l.end.x
    THEN Pt(-1, -1)
    ELSE IF l.start.y >= l.end.y THEN Pt(1, -1) ELSE Pt(1, 1)

\* The quadrant the line is drawn in: the match of into_iter.
LineDirection(l) ==
    IF l.start.x >= l.end.x
    THEN IF l.start.y >= l.end.y THEN Pt(-1, -1) ELSE Pt(-1, 1)
    ELSE IF l.start.y >= l.end.y THEN Pt(1, -1) ELSE Pt(1, 1)

\* delta = end - start, x made non-negative, y made non-positive.
LineDelta(l) ==
    LET d0 == PointSub(l.end, l.start)
        d1 == IF d0.x < 0 THEN Pt(-d0.x, d0.y) ELSE d0
    IN IF d1.y > 0 THEN Pt(d1.x, -d1.y) ELSE d1

\* into_iter that never sets stop at construction.
LineIntoIterNoStop(l) ==
    [style |-> l.style, start |-> l.start, end |-> l.end,
     delta |-> LineDelta(l), direction |-> LineDirection(l),
     err |-> LineDelta(l).x + LineDelta(l).y, stop |-> FALSE]

\* IntoIterator for &Line
LineIntoIter(l) ==
    [style |-> l.style, start |-> l.start, end |-> l.end,
     delta |-> LineDelta(l), direction |-> LineDirection(l),
     err |-> LineDelta(l).x + LineDelta(l).y, stop |-> (l.start = l.end)]

\* The step that moves along y only when it has not moved along x.
LineStepOneAxis(i) ==
    LET err_double == 2 * i.err
        stepx == err_double > i.delta.y
        errx == IF stepx THEN i.err + i.delta.y ELSE i.err
        sx == IF stepx THEN PointAdd(i.start, Pt(i.direction.x, 0)) ELSE i.start
        stepy == ~stepx /\ err_double < i.delta.x
        erry == IF stepy THEN errx + i.delta.x ELSE errx
        sy == IF stepy THEN PointAdd(sx, Pt(0, i.direction.y)) ELSE sx
    IN [i EXCEPT !.err = erry, !.start = sy]

\* The Bresenham step of next: the iterator after the two err comparisons.
LineStep(i) ==
    LET err_double == 2 * i.err
        stepx == err_double > i.delta.y
        errx == IF stepx THEN i.err + i.delta.y ELSE i.err
        sx == IF stepx THEN PointAdd(i.start, Pt(i.direction.x, 0)) ELSE i.start
        stepy == err_double < i.delta.x
        erry == IF stepy THEN errx + i.delta.x ELSE errx
        sy == IF stepy THEN PointAdd(sx, Pt(0, i.direction.y)) ELSE sx
    IN [i EXCEPT !.err = erry, !.start = sy]

\* next that draws nothing for a stroke width of zero.
LineNextZeroWidthEmpty(i) ==
    IF i.style.stroke_color = None \/ i.style.stroke_width = 0
    THEN [it |-> i, item |-> NoItem]
    ELSE IF ~i.stop
         THEN [it |-> LineStep([i EXCEPT !.stop = (i.start = i.end)]),
               item |-> Pixel(i.start, i.style.stroke_color)]
         ELSE [it |-> i, item |-> NoItem]

\* next without the early return on a missing stroke colour.
LineNextNoStrokeCheck(i) ==
    IF ~i.stop
    THEN [it |-> LineStep([i EXCEPT !.stop = (i.start = i.end)]),
          item |-> Pixel(i.start, i.style.stroke_color)]
    ELSE [it |-> i, item |-> NoItem]

\* next that stops on reaching end without emitting it.
LineNextEndExclusive(i) ==
    IF i.style.stroke_color = None
    THEN [it |-> i, item |-> NoItem]
    ELSE IF ~i.stop /\ i.start /= i.end
         THEN [it |-> LineStep(i), item |-> Pixel(i.start, i.style.stroke_color)]
         ELSE [it |-> [i EXCEPT !.stop = TRUE], item |-> NoItem]

\* next that emits the point after the step instead of the one before it.
LineNextEmitAfterStep(i) ==
    IF i.style.stroke_color = None
    THEN [it |-> i, item |-> NoItem]
    ELSE IF ~i.stop
         THEN LET n == LineStep([i EXCEPT !.stop = (i.start = i.end)])
              IN [it |-> n, item |-> Pixel(n.start, i.style.stroke_color)]
         ELSE [it |-> i, item |-> NoItem]

\* LineIterator::next: the iterator after the call and the item returned.
LineNext(i) ==
    IF i.style.stroke_color = None
    THEN [it |-> i, item |-> NoItem]
    ELSE IF ~i.stop
         THEN [it |-> LineStep([i EXCEPT !.stop = (i.start = i.end)]),
               item |-> Pixel(i.start, i.style.stroke_color)]
         ELSE [it |-> i, item |-> NoItem]

\* The whole sequence an iterator returns before its first None, computed
\* by calling next at most fuel times.
RECURSIVE LineCollect(_, _)
LineCollect(i, fuel) ==
    IF fuel = 0
    THEN <<>>
    ELSE LET r == LineNext(i)
         IN IF r.item = NoItem THEN <<>> ELSE <<r.item>> \o LineCollect(r.it, fuel - 1)

-----------------------------------------------------------------------------
(* The line's state machine *)

InitLine ==
    /\ \E s \in Points, e \in Points : line = LineNew(s, e)
    /\ moved = NoLine
    /\ by = NoOffset
    /\ it = NoIter
    /\ src = NoLine
    /\ out = <<>>
    /\ ret = NoCall
    /\ img = NoImage
    /\ iit = NoIter
    /\ iout = <<>>
    /\ iret = NoCall
    /\ panicked = FALSE
    /\ tsum = Pt(0, 0)
    /\ ch = NoChain
    /\ NoProducersNoDisplay

\* line = line.stroke_color(col), before any producer or copy is made.
StrokeColor(col) ==
    /\ it = NoIter
    /\ moved = NoLine
    /\ line /= NoLine
    /\ line' = WithStrokeColor(line, col)
    /\ UNCHANGED <<moved, by, it, src, out, ret>>
    /\ UNCHANGED imgVars
    /\ UNCHANGED ch
    /\ UNCHANGED prods
    /\ UNCHANGED simVars

\* moved = line.translate(d)
Translate(d) ==
    /\ it = NoIter
    /\ moved = NoLine
    /\ line /= NoLine
    /\ moved' = LineTranslate(line, d)
    /\ by' = d
    /\ UNCHANGED <<line, it, src, out, ret>>
    /\ UNCHANGED imgVars
    /\ UNCHANGED ch
    /\ UNCHANGED prods
    /\ UNCHANGED simVars

\* it = (&line).into_iter()
IntoIterLine ==
    /\ it = NoIter
    /\ line /= NoLine
    /\ it' = LineIntoIter(line)
    /\ src' = line
    /\ UNCHANGED <<line, moved, by, out, ret>>
    /\ UNCHANGED imgVars
    /\ UNCHANGED ch
    /\ UNCHANGED prods
    /\ UNCHANGED simVars

\* it = (&moved).into_iter()
IntoIterMoved ==
    /\ it = NoIter
    /\ moved /= NoLine
    /\ it' = LineIntoIter(moved)
    /\ src' = moved
    /\ UNCHANGED <<line, moved, by, out, ret>>
    /\ UNCHANGED imgVars
    /\ UNCHANGED ch
    /\ UNCHANGED prods
    /\ UNCHANGED simVars

\* it.next() of an iterator that looks its end point up in the descriptor.
NextCallReadsDescriptor ==
    /\ it /= NoIter
    /\ LET r == LineNext([it EXCEPT !.end = line.end])
       IN /\ it' = r.it
          /\ ret' = r.item
          /\ out' = IF r.item = NoItem THEN out ELSE Append(out, r.item)
    /\ UNCHANGED <<line, moved, by, src>>
    /\ UNCHANGED imgVars
    /\ UNCHANGED ch
    /\ UNCHANGED prods
    /\ UNCHANGED simVars

\* it.next()
NextCall ==
    /\ it /= NoIter
    /\ LET r == LineNext(it)
       IN /\ it' = r.it
          /\ ret' = r.item
          /\ out' = IF r.item = NoItem THEN out ELSE Append(out, r.item)
    /\ UNCHANGED <<line, moved, by, src>>
    /\ UNCHANGED imgVars
    /\ UNCHANGED ch
    /\ UNCHANGED prods
    /\ UNCHANGED simVars

Next ==
    \/ \E col \in Colors \cup {None} : StrokeColor(col)
    \/ \E d \in Offsets : Translate(d)
    \/ IntoIterLine
    \/ IntoIterMoved
    \/ NextCall

Spec == InitLine /\ [][Next]_vars

-----------------------------------------------------------------------------
(* The line moved in place *)

\* line.translate_mut(d), before any producer or copy is made; the moved
\* line stays among the lines explored.
TranslateMut(d) ==
    /\ it = NoIter
    /\ moved = NoLine
    /\ line /= NoLine
    /\ LineTranslateMut(line, d).start \in Points
    /\ LineTranslateMut(line, d).end \in Points
    /\ line' = LineTranslateMut(line, d)
    /\ UNCHANGED <<moved, by, it, src, out, ret>>
    /\ UNCHANGED imgVars
    /\ UNCHANGED ch
    /\ UNCHANGED prods
    /\ UNCHANGED simVars

NextMut ==
    \/ \E col \in Colors \cup {None} : StrokeColor(col)
    \/ \E d \in Offsets : TranslateMut(d)
    \/ \E d \in Offsets : Translate(d)

SpecMut == InitLine /\ [][NextMut]_vars

-----------------------------------------------------------------------------
(* The line styled by its builder *)

\* The stroke widths the builder is called with.
Widths == {0, 1, 2}

\* line = line.stroke_width(w), before any producer is made.
StrokeWidth(w) ==
    /\ it = NoIter
    /\ moved = NoLine
    /\ line /= NoLine
    /\ line' = WithStrokeWidth(line, w)
    /\ UNCHANGED <<moved, by, it, src, out, ret>>
    /\ UNCHANGED imgVars
    /\ UNCHANGED ch
    /\ UNCHANGED prods
    /\ UNCHANGED simVars

\* line = line.fill_color(col), before any producer is made.
FillColor(col) ==
    /\ it = NoIter
    /\ moved = NoLine
    /\ line /= NoLine
    /\ line' = WithFillColor(line, col)
    /\ UNCHANGED <<moved, by, it, src, out, ret>>
    /\ UNCHANGED imgVars
    /\ UNCHANGED ch
    /\ UNCHANGED prods
    /\ UNCHANGED simVars

NextStyle ==
    \/ \E col \in Colors \cup {None} : StrokeColor(col)
    \/ \E w \in Widths : StrokeWidth(w)
    \/ \E col \in Colors \cup {None} : FillColor(col)
    \/ IntoIterLine
    \/ NextCall

SpecStyle == InitLine /\ [][NextStyle]_vars

-----------------------------------------------------------------------------
(* The line drawn by a consumer that keeps calling next *)

NextLive ==
    \/ \E col \in Colors \cup {None} : StrokeColor(col)
    \/ IntoIterLine
    \/ NextCall

\* A consumer such as a for loop calls next until it returns None.
SpecLive == InitLine /\ [][NextLive]_vars /\ WF_vars(NextCall)

-----------------------------------------------------------------------------
(* The line changed while a producer of it is in use *)

\* The points the lines changed under a producer start at.
SnapStarts == {Pt(0, 0), Pt(-1, 2)}

\* The offsets translate_mut is called with under a producer.
SnapOffsets == {Pt(1, 0), Pt(-2, 1)}

InitSnap ==
    /\ \E s \in SnapStarts, e \in Points : line = LineNew(s, e)
    /\ moved = NoLine
    /\ by = NoOffset
    /\ it = NoIter
    /\ src = NoLine
    /\ out = <<>>
    /\ ret = NoCall
    /\ img = NoImage
    /\ iit = NoIter
    /\ iout = <<>>
    /\ iret = NoCall
    /\ panicked = FALSE
    /\ tsum = Pt(0, 0)
    /\ ch = NoChain
    /\ NoProducersNoDisplay

\* line.translate_mut(d) while the producer made from the line has returned
\* some of its pixels and not yet None: the producer holds no borrow of the
\* line. The moved line stays among the lines explored.
TranslateMutWhileIterating(d) ==
    /\ it /= NoIter
    /\ out /= <<>>
    /\ ret /= NoItem
    /\ LineTranslateMut(line, d).start \in Points
    /\ LineTranslateMut(line, d).end \in Points
    /\ line' = LineTranslateMut(line, d)
    /\ UNCHANGED <<moved, by, it, src, out, ret>>
    /\ UNCHANGED imgVars
    /\ UNCHANGED ch
    /\ UNCHANGED prods
    /\ UNCHANGED simVars

\* it = (&line).into_iter() once more, after the former producer returned
\* None.
IntoIterAgain ==
    /\ it /= NoIter
    /\ ret = NoItem
    /\ it' = LineIntoIter(line)
    /\ src' = line
    /\ out' = <<>>
    /\ ret' = NoCall
    /\ UNCHANGED <<line, moved, by>>
    /\ UNCHANGED imgVars
    /\ UNCHANGED ch
    /\ UNCHANGED prods
    /\ UNCHANGED simVars

NextSnap ==
    \/ \E col \in Colors \cup {None} : StrokeColor(col)
    \/ IntoIterLine
    \/ NextCall
    \/ \E d \in SnapOffsets : TranslateMutWhileIterating(d)
    \/ IntoIterAgain

SpecSnap == InitSnap /\ [][NextSnap]_vars

-----------------------------------------------------------------------------
(* Two line producers chained *)

\* The points the first line of a chain starts at.
ChainStarts == {Pt(0, 1), Pt(1, -2)}

\* a.chain(b): both producers, and whether a is still to be asked.
ChainNew(la, lb) ==
    [a |-> LineIntoIter(la), b |-> LineIntoIter(lb), front |-> TRUE,
     la |-> la, lb |-> lb, out |-> <<>>, ret |-> NoCall]

\* next of a chain that reports the end of a as the end of the chain.
ChainNextStopsAfterFirst(c) ==
    LET ra == LineNext(c.a)
        rb == LineNext(c.b)
    IN IF c.front
       THEN IF ra.item /= NoItem
            THEN [c EXCEPT !.a = ra.it, !.ret = ra.item,
                           !.out = Append(c.out, ra.item)]
            ELSE [c EXCEPT !.a = ra.it, !.front = FALSE, !.ret = NoItem]
       ELSE IF rb.item /= NoItem
            THEN [c EXCEPT !.b = rb.it, !.ret = rb.item,
                           !.out = Append(c.out, rb.item)]
            ELSE [c EXCEPT !.b = rb.it, !.ret = NoItem]

\* next of the chain: a's item while a has one; from a's first None on,
\* b's item.
ChainNext(c) ==
    LET ra == LineNext(c.a)
        rb == LineNext(c.b)
    IN IF c.front /\ ra.item /= NoItem
       THEN [c EXCEPT !.a = ra.it, !.ret = ra.item,
                      !.out = Append(c.out, ra.item)]
       ELSE LET c1 == IF c.front
                      THEN [c EXCEPT !.a = ra.it, !.front = FALSE]
                      ELSE c
            IN IF rb.item /= NoItem
               THEN [c1 EXCEPT !.b = rb.it, !.ret = rb.item,
                               !.out = Append(c.out, rb.item)]
               ELSE [c1 EXCEPT !.b = rb.it, !.ret = NoItem]

\* Two styled lines, the second starting where the first ends, chained.
InitChain ==
    /\ \E s \in ChainStarts, m \in Points, e \in Points,
          ca \in {None, "On"}, cb \in Colors \cup {None} :
            ch = ChainNew(WithStrokeColor(LineNew(s, m), ca),
                          WithStrokeColor(LineNew(m, e), cb))
    /\ line = NoLine
    /\ moved = NoLine
    /\ by = NoOffset
    /\ it = NoIter
    /\ src = NoLine
    /\ out = <<>>
    /\ ret = NoCall
    /\ img = NoImage
    /\ iit = NoIter
    /\ iout = <<>>
    /\ iret = NoCall
    /\ panicked = FALSE
    /\ tsum = Pt(0, 0)
    /\ NoProducersNoDisplay

\* chained.next()
ChainNextCall ==
    /\ ch /= NoChain
    /\ ch' = ChainNext(ch)
    /\ UNCHANGED lineVars
    /\ UNCHANGED imgVars
    /\ UNCHANGED prods
    /\ UNCHANGED simVars

NextChain == ChainNextCall

SpecChain == InitChain /\ [][NextChain]_vars

-----------------------------------------------------------------------------
(* The BMP image *)

\* Image widths are 0..MaxWidth, heights 0..MaxHeight.
MaxWidth == 3

MaxHeight == 2

\* The pixel data holds 0..MaxDataLen bytes.
MaxDataLen == 9

\* Each coordinate of the image offset stays in -MaxOffset..MaxOffset.
MaxOffset == 1

\* The bits per pixel a BMP header may declare.
Bpps == {1, 8, 16, 24, 32}

\* C::Raw::BITS_PER_PIXEL of the colour types images are decoded into
\* (BinaryColor, Gray8, Rgb555 and Rgb565, Rgb888).
ColorBits == {1, 8, 16, 24}

\* The offsets translate_mut is called with.
ImgOffsets == {Pt(-1, -1), Pt(1, 0), Pt(0, 1)}

\* The pixel data: n bytes, every byte different from its neighbours.
DataOf(n) == [k \in 1..n |-> (k * 83) % 256]

RECURSIVE Pow(_, _)
Pow(b, e) == IF e = 0 THEN 1 ELSE b * Pow(b, e - 1)

\* ImageFile::new: the header fields and pixel data tinybmp parsed, at
\* offset zero, to be decoded into a colour type of cbits bits.
ImageNew(w, h, bpp, data, cbits) ==
    [width |-> w, height |-> h, bpp |-> bpp, data |-> data,
     offset |-> Pt(0, 0), cbits |-> cbits]

\* Dimensions::top_left
ImageTopLeft(im) == im.offset

\* Dimensions::size
ImageSize(im) == Size(im.width, im.height)

\* Dimensions::bottom_right
ImageBottomRight(im) == PointAddSize(ImageTopLeft(im), ImageSize(im))

\* Transform::translate: a clone of the image at offset + d.
ImageTranslate(im, d) == [im EXCEPT !.offset = PointAdd(im.offset, d)]

\* translate_mut that moves the image to d instead of by d.
ImageTranslateMutTo(im, d) == [im EXCEPT !.offset = d]

\* Transform::translate_mut
ImageTranslateMut(im, d) == [im EXCEPT !.offset = PointAdd(im.offset, d)]

\* The depth check of into_iter that lets a shallower image through.
DepthMismatchOnlyDeeper(im) == im.bpp > im.cbits

\* The check of into_iter: the image's bpp is not C::Raw::BITS_PER_PIXEL.
DepthMismatch(im) == im.bpp /= im.cbits

\* The row length without the padding to 4 bytes.
BytesPerRowNoPadding(im) == (im.width * im.bpp + 7) \div 8

\* ImageBmp::bytes_per_row
BytesPerRow(im) ==
    LET bits_per_row == im.width * im.bpp
    IN ((bits_per_row + 31) \div 32) * (32 \div 8)

\* RawDataIter::set_byte_position: the cursor, in bits.
RawSetBytePosition(position) == 8 * position

\* The raw value of bpp bits at bit cursor pos: whole bytes little-endian,
\* a single bit from the most significant bit down.
RawValue(data, pos, bpp) ==
    IF bpp >= 8
    THEN LET RECURSIVE Sum(_)
             Sum(k) == IF k = bpp \div 8
                       THEN 0
                       ELSE data[pos \div 8 + k + 1] * Pow(256, k) + Sum(k + 1)
         IN Sum(0)
    ELSE (data[pos \div 8 + 1] \div Pow(2, 8 - bpp - (pos % 8))) % Pow(2, bpp)

\* RawDataIter::next: None when fewer than bpp bits are left at the cursor.
RawNext(data, pos, bpp) ==
    IF pos + bpp <= 8 * Len(data)
    THEN [some |-> TRUE, raw |-> RawValue(data, pos, bpp), pos |-> pos + bpp]
    ELSE [some |-> FALSE, raw |-> 0, pos |-> pos]

\* IntoIterator for &ImageBmp, when the bit depths agree.
ImageIntoIter(im) == [pos |-> 0, x |-> 0, y |-> 0]

\* next that reads the rows of the data top to bottom.
ImageNextTopDown(i, im) ==
    IF i.y < im.height
    THEN LET row_start == BytesPerRow(im) * i.y
             pos1 == IF i.x = 0 THEN RawSetBytePosition(row_start) ELSE i.pos
             r == RawNext(im.data, pos1, im.bpp)
         IN IF ~r.some
            THEN [it |-> [i EXCEPT !.pos = pos1], item |-> NoItem]
            ELSE [it |-> [pos |-> r.pos,
                          x |-> IF i.x + 1 >= im.width THEN 0 ELSE i.x + 1,
                          y |-> IF i.x + 1 >= im.width THEN i.y + 1 ELSE i.y],
                  item |-> Pixel(PointAdd(Pt(i.x, i.y), im.offset), r.raw)]
    ELSE [it |-> i, item |-> NoItem]

\* ImageBmpIterator::next: the iterator after the call and the item returned.
ImageNext(i, im) ==
    IF i.y < im.height
    THEN LET row_index == (im.height - 1) - i.y
             row_start == BytesPerRow(im) * row_index
             pos1 == IF i.x = 0 THEN RawSetBytePosition(row_start) ELSE i.pos
             r == RawNext(im.data, pos1, im.bpp)
         IN IF ~r.some
            THEN [it |-> [i EXCEPT !.pos = pos1], item |-> NoItem]
            ELSE [it |-> [pos |-> r.pos,
                          x |-> IF i.x + 1 >= im.width THEN 0 ELSE i.x + 1,
                          y |-> IF i.x + 1 >= im.width THEN i.y + 1 ELSE i.y],
                  item |-> Pixel(PointAdd(Pt(i.x, i.y), im.offset), r.raw)]
    ELSE [it |-> i, item |-> NoItem]

-----------------------------------------------------------------------------
(* The image's state machine *)

InitImg ==
    /\ \E w \in 0..MaxWidth, h \in 0..MaxHeight, bpp \in Bpps,
          n \in 0..MaxDataLen, cbits \in ColorBits :
            img = ImageNew(w, h, bpp, DataOf(n), cbits)
    /\ iit = NoIter
    /\ iout = <<>>
    /\ iret = NoCall
    /\ panicked = FALSE
    /\ tsum = Pt(0, 0)
    /\ ch = NoChain
    /\ line = NoLine
    /\ moved = NoLine
    /\ by = NoOffset
    /\ it = NoIter
    /\ src = NoLine
    /\ out = <<>>
    /\ ret = NoCall
    /\ NoProducersNoDisplay

\* img.translate_mut(d): the image is not borrowed by a producer.
ImgTranslateMut(d) ==
    /\ iit = NoIter
    /\ ~panicked
    /\ Abs(img.offset.x + d.x) <= MaxOffset
    /\ Abs(img.offset.y + d.y) <= MaxOffset
    /\ img' = ImageTranslateMut(img, d)
    /\ tsum' = PointAdd(tsum, d)
    /\ UNCHANGED <<iit, iout, iret, panicked>>
    /\ UNCHANGED lineVars
    /\ UNCHANGED ch
    /\ UNCHANGED prods
    /\ UNCHANGED simVars

\* img = img.translate(d): the clone takes the place of the image.
ImgTranslate(d) ==
    /\ iit = NoIter
    /\ ~panicked
    /\ Abs(img.offset.x + d.x) <= MaxOffset
    /\ Abs(img.offset.y + d.y) <= MaxOffset
    /\ img' = ImageTranslate(img, d)
    /\ tsum' = PointAdd(tsum, d)
    /\ UNCHANGED <<iit, iout, iret, panicked>>
    /\ UNCHANGED lineVars
    /\ UNCHANGED ch
    /\ UNCHANGED prods
    /\ UNCHANGED simVars

\* (&img).into_iter() with the image's depth that of the colour type.
ImgIntoIter ==
    /\ iit = NoIter
    /\ ~panicked
    /\ ~DepthMismatch(img)
    /\ iit' = ImageIntoIter(img)
    /\ UNCHANGED <<img, iout, iret, panicked, tsum>>
    /\ UNCHANGED lineVars
    /\ UNCHANGED ch
    /\ UNCHANGED prods
    /\ UNCHANGED simVars

\* (&img).into_iter() with another depth: panic!("invalid bits per pixel").
ImgIntoIterPanic ==
    /\ iit = NoIter
    /\ ~panicked
    /\ DepthMismatch(img)
    /\ panicked' = TRUE
    /\ UNCHANGED <<img, iit, iout, iret, tsum>>
    /\ UNCHANGED lineVars
    /\ UNCHANGED ch
    /\ UNCHANGED prods
    /\ UNCHANGED simVars

\* iit.next()
ImgNextCall ==
    /\ iit /= NoIter
    /\ LET r == ImageNext(iit, img)
       IN /\ iit' = r.it
          /\ iret' = r.item
          /\ iout' = IF r.item = NoItem THEN iout ELSE Append(iout, r.item)
    /\ UNCHANGED <<img, panicked, tsum>>
    /\ UNCHANGED lineVars
    /\ UNCHANGED ch
    /\ UNCHANGED prods
    /\ UNCHANGED simVars

NextImg ==
    \/ \E d \in ImgOffsets : ImgTranslateMut(d)
    \/ \E d \in ImgOffsets : ImgTranslate(d)
    \/ ImgIntoIter
    \/ ImgIntoIterPanic
    \/ ImgNextCall

SpecImg == InitImg /\ [][NextImg]_vars

-----------------------------------------------------------------------------
(* Several producers of one image *)

\* The whole sequence an image iterator returns before its first None,
\* computed by calling next at most fuel times.
RECURSIVE ImageCollect(_, _, _)
ImageCollect(i, im, fuel) ==
    IF fuel = 0
    THEN <<>>
    ELSE LET r == ImageNext(i, im)
         IN IF r.item = NoItem
            THEN <<>>
            ELSE <<r.item>> \o ImageCollect(r.it, im, fuel - 1)

\* (&im).into_iter() for the producer named k: an iterator of its own, with
\* its own cursor into the image data.
ProducerIntoIter(ps, k, im) ==
    [ps EXCEPT ![k] = [it |-> ImageIntoIter(im), out |-> <<>>, ret |-> NoCall]]

\* next on producers that read the image data through one cursor.
ProducerNextSharedCursor(ps, k, im) ==
    LET r == ImageNext(ps[k].it, im)
    IN [j \in Producers |->
          IF j = k
          THEN [it |-> r.it, ret |-> r.item,
                out |-> IF r.item = NoItem
                        THEN ps[k].out
                        ELSE Append(ps[k].out, r.item)]
          ELSE IF ps[j].it = NoIter
               THEN ps[j]
               ELSE [ps[j] EXCEPT !.it.pos = r.it.pos]]

\* next(&mut self) on the producer named k: only its own x, y and cursor
\* are read and written; the image is read through a shared reference.
ProducerNext(ps, k, im) ==
    LET r == ImageNext(ps[k].it, im)
    IN [ps EXCEPT ![k] = [it |-> r.it, ret |-> r.item,
                          out |-> IF r.item = NoItem
                                  THEN ps[k].out
                                  ELSE Append(ps[k].out, r.item)]]

\* An image whose depth is that of its colour type, so that into_iter
\* returns, at one of the offsets, with no producer yet.
InitShare ==
    /\ \E w \in 0..MaxWidth, h \in 0..MaxHeight, bpp \in Bpps \cap ColorBits,
          n \in 0..MaxDataLen, d \in {Pt(0, 0), Pt(-1, 1)} :
            img = ImageTranslate(ImageNew(w, h, bpp, DataOf(n), bpp), d)
    /\ iit = NoIter
    /\ iout = <<>>
    /\ iret = NoCall
    /\ panicked = FALSE
    /\ tsum = Pt(0, 0)
    /\ ch = NoChain
    /\ line = NoLine
    /\ moved = NoLine
    /\ by = NoOffset
    /\ it = NoIter
    /\ src = NoLine
    /\ out = <<>>
    /\ ret = NoCall
    /\ NoProducersNoDisplay

\* The producer named k is made from the image.
ShareIntoIter(k) ==
    /\ prods[k].it = NoIter
    /\ ~DepthMismatch(img)
    /\ prods' = ProducerIntoIter(prods, k, img)
    /\ UNCHANGED lineVars
    /\ UNCHANGED imgVars
    /\ UNCHANGED ch
    /\ UNCHANGED simVars

\* The producer named k is advanced, whatever the others have done.
ShareNextCall(k) ==
    /\ prods[k].it /= NoIter
    /\ prods' = ProducerNext(prods, k, img)
    /\ UNCHANGED lineVars
    /\ UNCHANGED imgVars
    /\ UNCHANGED ch
    /\ UNCHANGED simVars

NextShare ==
    \/ \E k \in Producers : ShareIntoIter(k)
    \/ \E k \in Producers : ShareNextCall(k)

SpecShare == InitShare /\ [][NextShare]_vars

-----------------------------------------------------------------------------
(* The simulator display *)

\* draw_pixel and clear are called at most MaxDraws times on a display.
MaxDraws == 3

\* A usize of a 64-bit target is kept as UsizeLimbs digits of base
\* LimbBase, the least significant first.
UsizeLimbs == 4

LimbBase == 65536

\* The two displays: BinaryDisplay and RgbDisplay.
DisplayKinds == {"Binary", "Rgb"}

\* The sizes displays are built with.
DisplaySizes == {Size(2, 2), Size(3, 1), Size(1, 2), Size(0, 2)}

\* The coordinates pixels are drawn at: inside a display, beyond its right
\* or bottom edge, and negative.
DrawCoords == {Pt(0, 0), Pt(1, 0), Pt(0, 1), Pt(2, 1), Pt(-1, 0), Pt(1, -1)}

\* The colours of the pixels drawn on a display: BinaryColor on a
\* BinaryDisplay; BinaryColor::On and Rgb888::RED on an RgbDisplay.
DrawColors(kind) == IF kind = "Binary" THEN {"On", "Off"} ELSE {"On", "RED"}

\* Rgb888::from(BinaryColor) and the identity on Rgb888.
IntoRgb888(col) ==
    IF col = "On" THEN "WHITE" ELSE IF col = "Off" THEN "BLACK" ELSE col

\* color.into() of draw_pixel: the colour as the display's buffer holds it.
IntoCell(kind, col) == IF kind = "Rgb" THEN IntoRgb888(col) ELSE col

\* v as usize that takes the magnitude of a negative v.
AsUsizeMagnitude(v) ==
    [k \in 1..UsizeLimbs |->
        IF k = 1 THEN Abs(v) % LimbBase
        ELSE IF k = 2 THEN (Abs(v) \div LimbBase) % LimbBase
        ELSE 0]

\* v as usize for an i32 v: the two's complement of v, sign-extended.
AsUsize(v) ==
    [k \in 1..UsizeLimbs |->
        IF k = 1 THEN v % LimbBase
        ELSE IF k = 2 THEN (v \div LimbBase) % LimbBase
        ELSE IF v < 0 THEN LimbBase - 1 ELSE 0]

\* A usize holding the natural number n.
UsizeOf(n) ==
    [k \in 1..UsizeLimbs |->
        IF k = 1 THEN n % LimbBase
        ELSE IF k = 2 THEN (n \div LimbBase) % LimbBase
        ELSE 0]

\* a < b on usize.
UsizeLess(a, b) ==
    \E k \in 1..UsizeLimbs :
        /\ a[k] < b[k]
        /\ \A j \in (k + 1)..UsizeLimbs : a[j] = b[j]

\* The integer a usize below LimbBase stands for.
UsizeSmall(a) == a[1]

\* PixelData::new: width * height cells of BinaryColor::Off.into().
PixelDataNew(width, height, off) ==
    [width |-> width, height |-> height,
     data |-> [k \in 1..(width * height) |-> off]]

\* PixelData::get
PixelDataGet(pd, x, y) == pd.data[(x + y * pd.width) + 1]

\* PixelData::set: the buffer after the call, and whether indexing it
\* panicked.
PixelDataSet(pd, x, y, color) ==
    IF UsizeLess(x, UsizeOf(pd.width)) /\ UsizeLess(y, UsizeOf(pd.height))
    THEN LET index == UsizeSmall(x) + UsizeSmall(y) * pd.width
         IN IF index < Len(pd.data)
            THEN [pixels |-> [pd EXCEPT !.data[index + 1] = color],
                  panic |-> FALSE]
            ELSE [pixels |-> pd, panic |-> TRUE]
    ELSE [pixels |-> pd, panic |-> FALSE]

\* BinaryColor::Off.into() in the colour type of the display's buffer.
DisplayOff(kind) == IntoCell(kind, "Off")

\* DisplayBuilder::build_binary and build_rgb: a display of the given size
\* with a new pixel buffer.
DisplayBuild(kind, width, height) ==
    [kind |-> kind, pixels |-> PixelDataNew(width, height, DisplayOff(kind))]

\* DrawTarget::draw_pixel of BinaryDisplay and RgbDisplay.
DisplayDrawPixel(d, pixel) ==
    LET x == AsUsize(pixel.p.x)
        y == AsUsize(pixel.p.y)
        r == PixelDataSet(d.pixels, x, y, IntoCell(d.kind, pixel.c))
    IN [display |-> [d EXCEPT !.pixels = r.pixels], panic |-> r.panic]

\* clear that empties the first row of the buffer only.
DisplayClearFirstRow(d) ==
    [d EXCEPT !.pixels.data =
        [k \in 1..Len(d.pixels.data) |->
            IF k <= d.pixels.width
            THEN DisplayOff(d.kind)
            ELSE d.pixels.data[k]]]

\* BinaryDisplay::clear and RgbDisplay::clear
DisplayClear(d) ==
    [d EXCEPT !.pixels =
        PixelDataNew(d.pixels.width, d.pixels.height, DisplayOff(d.kind))]

\* DrawTarget::size
DisplaySize(d) == Size(d.pixels.width, d.pixels.height)

\* What was asked of a display: built with a size, a pixel drawn, cleared.
Built(kind, width, height) == [op |-> "build", p |-> Pt(width, height), c |-> kind]

Drew(pixel) == [op |-> "draw", p |-> pixel.p, c |-> pixel.c]

Cleared == [op |-> "clear", p |-> Pt(0, 0), c |-> None]

InitSim ==
    /\ \E kind \in DisplayKinds, sz \in DisplaySizes :
          /\ disp = DisplayBuild(kind, sz.width, sz.height)
          /\ drawn = <<Built(kind, sz.width, sz.height)>>
    /\ dpanicked = FALSE
    /\ prods = [k \in Producers |-> NoProducer]
    /\ line = NoLine
    /\ moved = NoLine
    /\ by = NoOffset
    /\ it = NoIter
    /\ src = NoLine
    /\ out = <<>>
    /\ ret = NoCall
    /\ img = NoImage
    /\ iit = NoIter
    /\ iout = <<>>
    /\ iret = NoCall
    /\ panicked = FALSE
    /\ tsum = Pt(0, 0)
    /\ ch = NoChain

\* display.draw_pixel(Pixel(pt, col))
DrawPixelCall(pt, col) ==
    /\ disp /= NoDisplay
    /\ ~dpanicked
    /\ Len(drawn) <= MaxDraws
    /\ col \in DrawColors(disp.kind)
    /\ LET r == DisplayDrawPixel(disp, Pixel(pt, col))
       IN /\ disp' = r.display
          /\ dpanicked' = r.panic
    /\ drawn' = Append(drawn, Drew(Pixel(pt, col)))
    /\ UNCHANGED lineVars
    /\ UNCHANGED imgVars
    /\ UNCHANGED ch
    /\ UNCHANGED prods

\* display.clear()
ClearCall ==
    /\ disp /= NoDisplay
    /\ ~dpanicked
    /\ Len(drawn) <= MaxDraws
    /\ disp' = DisplayClear(disp)
    /\ drawn' = Append(drawn, Cleared)
    /\ UNCHANGED dpanicked
    /\ UNCHANGED lineVars
    /\ UNCHANGED imgVars
    /\ UNCHANGED ch
    /\ UNCHANGED prods

\* A display that pixels are drawn on.
NextDraw ==
    \E pt \in DrawCoords, col \in {"On", "Off", "RED"} : DrawPixelCall(pt, col)

SpecDraw == InitSim /\ [][NextDraw]_vars

\* A display that pixels are drawn on and that is cleared.
NextSim ==
    \/ \E pt \in DrawCoords, col \in {"On", "Off", "RED"} : DrawPixelCall(pt, col)
    \/ ClearCall

SpecSim == InitSim /\ [][NextSim]_vars

-----------------------------------------------------------------------------
(* Vocabulary of the properties *)

\* The live line iterator has reported exhaustion.
Exhausted == it /= NoIter /\ ret = NoItem

StrokePresent(l) == l.style.stroke_color /= None

\* The set of coordinates of a pixel sequence.
Coords(seq) == {seq[k].p : k \in 1..Len(seq)}

\* The line with start and end swapped.
Reversed(l) == [l EXCEPT !.start = l.end, !.end = l.start]

\* Everything a fresh iterator of l returns before its first None.
FullRun(l) == LineCollect(LineIntoIter(l), MaxFuel)

\* A pixel sequence with d added to every coordinate.
Shift(seq, d) == [k \in 1..Len(seq) |-> Pixel(PointAdd(seq[k].p, d), seq[k].c)]

FirstIsStartLastIsEnd ==
    /\ Len(out) >= 1
    /\ out[1].p = src.start
    /\ out[Len(out)].p = src.end

-----------------------------------------------------------------------------
(* Properties of the line producer *)

\* C1, as stated: for every line with a present stroke colour, the emitted
\* sequence starts at start and ends at end.
C1_EndpointsAnyLine ==
    (Exhausted /\ StrokePresent(src)) => FirstIsStartLastIsEnd

\* C1, amended: for every line with a present stroke colour and
\* start /= end, the emitted sequence starts at start and ends at end.
C1_Endpoints ==
    (Exhausted /\ StrokePresent(src) /\ src.start /= src.end)
        => FirstIsStartLastIsEnd

C1_Witness ==
    /\ Exhausted
    /\ StrokePresent(src)
    /\ src.start /= src.end
    /\ Len(out) >= 3
    /\ out[1].p = src.start
    /\ out[Len(out)].p = src.end

\* C2, as stated: a line with start = end yields exactly one pixel, at
\* start, when the stroke colour is present and none when it is absent.
C2_DegenerateOnePixel ==
    (Exhausted /\ src.start = src.end)
        => IF StrokePresent(src)
           THEN Len(out) = 1 /\ out[1].p = src.start
           ELSE Len(out) = 0

\* C2, amended: a line with start = end yields zero pixels, whether the
\* stroke colour is present or absent.
C2_DegenerateEmpty ==
    (Exhausted /\ src.start = src.end) => Len(out) = 0

C2_Witness ==
    /\ Exhausted
    /\ src.start = src.end
    /\ StrokePresent(src)
    /\ Len(out) = 0

\* C3: a zero-length line with a present stroke colour draws nothing: the
\* first call of next returns None and no pixel is ever emitted.
C3_DrawsNoDot ==
    (it /= NoIter /\ src.start = src.end /\ StrokePresent(src))
        => (out = <<>> /\ ret \in {NoCall, NoItem} /\ it.stop)

C3_Witness ==
    /\ it /= NoIter
    /\ src.start = src.end
    /\ StrokePresent(src)
    /\ ret = NoItem

\* C4, as stated: Line(a, b) and Line(b, a) emit the same set of
\* coordinates.
C4_ReverseSameSet ==
    (Exhausted /\ StrokePresent(src))
        => Coords(out) = Coords(FullRun(Reversed(src)))

\* C4, amended: the set of coordinates emitted by Line(b, a) is the set
\* emitted by Line(a, b) reflected through the midpoint of the segment,
\* p |-> a + b - p.
C4_ReverseReflectedSet ==
    (Exhausted /\ StrokePresent(src))
        => Coords(FullRun(Reversed(src)))
             = {PointSub(PointAdd(src.start, src.end), q) : q \in Coords(out)}

C4_Witness ==
    /\ Exhausted
    /\ StrokePresent(src)
    /\ src.start /= src.end
    /\ Coords(out) /= Coords(FullRun(Reversed(src)))
    /\ Cardinality(Coords(out)) = Cardinality(Coords(FullRun(Reversed(src))))

\* C5: with the stroke colour absent (the default style of Line::new
\* included) every call of next returns None and nothing is emitted.
C5_NoStrokeNoPixels ==
    (it /= NoIter /\ ~StrokePresent(src))
        => (out = <<>> /\ ret \in {NoCall, NoItem})

C5_Witness ==
    /\ it /= NoIter
    /\ src.style = StyleDefault
    /\ src.start /= src.end
    /\ ret = NoItem
    /\ out = <<>>

\* C6: the pixels of line.translate(by) are the pixels of line with by
\* added to every coordinate: same length, same order, same colours.
C6_TranslateCommutes ==
    (Exhausted /\ moved /= NoLine /\ src = moved)
        => out = Shift(FullRun(line), by)

C6_Witness ==
    /\ Exhausted
    /\ moved /= NoLine
    /\ src = moved
    /\ by /= Pt(0, 0)
    /\ Len(out) >= 3

\* C7: every pixel a line producer emits lies in the bounding box of the
\* line, after every call of next.
C7_InsideBoundingBox ==
    it /= NoIter =>
        \A k \in 1..Len(out) :
            /\ LineTopLeft(src).x <= out[k].p.x
            /\ out[k].p.x <= Max(src.start.x, src.end.x)
            /\ LineTopLeft(src).y <= out[k].p.y
            /\ out[k].p.y <= Max(src.start.y, src.end.y)

C7_Witness ==
    /\ Exhausted
    /\ Len(out) >= 3
    /\ src.start.x > src.end.x
    /\ src.start.y < src.end.y
    /\ Abs(src.start.x - src.end.x) /= Abs(src.start.y - src.end.y)

-----------------------------------------------------------------------------
(* Properties of the image producer *)

\* The live image iterator has reported exhaustion.
ImgExhausted == iit /= NoIter /\ iret = NoItem

\* The pixel data holds every row the header declares.
CompleteData(im) == Len(im.data) >= BytesPerRow(im) * im.height

\* C8: an image producer never emits more than width * height pixels,
\* whatever the header's width and height and the amount of pixel data.
C8_AtMostWidthTimesHeight ==
    iit /= NoIter => Len(iout) <= img.width * img.height

\* C9: with complete pixel data the producer emits exactly width * height
\* pixels, the k-th (from 0) at (k mod width, k div width) + offset, and
\* returns None only after them.
C9_RowMajorExactly ==
    (iit /= NoIter /\ CompleteData(img)) =>
        /\ Len(iout) <= img.width * img.height
        /\ \A k \in 0..(Len(iout) - 1) :
              iout[k + 1].p
                = PointAdd(Pt(k % img.width, k \div img.width), img.offset)
        /\ iret = NoItem => Len(iout) = img.width * img.height

\* C10: bytes_per_row is ceil(width * bits_per_pixel / 32) * 4: a multiple
\* of 4, and the smallest one whose bytes hold width * bits_per_pixel bits.
C10_RowPadding ==
    img /= NoImage =>
        LET bits == img.width * img.bpp
            b == BytesPerRow(img)
            ceil == CHOOSE n \in 0..bits :
                        32 * n >= bits /\ (n = 0 \/ 32 * (n - 1) < bits)
        IN /\ b = ceil * 4
           /\ b % 4 = 0
           /\ 8 * b >= bits
           /\ \A m \in 0..b : (m % 4 = 0 /\ 8 * m >= bits) => m >= b

C10_Witness ==
    /\ iit /= NoIter
    /\ Len(iout) >= 1
    /\ iit.x = 0
    /\ iit.y = 1
    /\ (img.width * img.bpp) % 32 /= 0
    /\ BytesPerRow(img) = 8

\* The bit offset in the pixel data the pixel emitted at q was read from,
\* by the row order rule.
BitOffsetOf(q) ==
    LET lx == q.x - img.offset.x
        ly == q.y - img.offset.y
    IN 8 * (BytesPerRow(img) * (img.height - 1 - ly)) + lx * img.bpp

\* C11: rows are read bottom-up: the pixel at logical (x, y) is decoded
\* from byte offset bytes_per_row * (height - 1 - y) plus x pixels, and the
\* cursor stands right behind the pixel last emitted.
C11_BottomUpRows ==
    iit /= NoIter =>
        /\ \A k \in 1..Len(iout) :
              /\ BitOffsetOf(iout[k].p) + img.bpp <= 8 * Len(img.data)
              /\ iout[k].c = RawValue(img.data, BitOffsetOf(iout[k].p), img.bpp)
        /\ (iret /= NoItem /\ iret /= NoCall)
              => iit.pos = BitOffsetOf(iret.p) + img.bpp

C11_Witness ==
    /\ ImgExhausted
    /\ img.height = 2
    /\ img.width = 2
    /\ img.bpp = 16
    /\ Len(iout) = 4
    /\ iout[1].c /= iout[3].c
    /\ iout[1].c = RawValue(img.data, 8 * 4, 16)

C14_NonNegativeOnly ==
    iit /= NoIter =>
        \A k \in 1..Len(iout) : iout[k].p.x >= 0 /\ iout[k].p.y >= 0

\* C16, the positions: after translations summing to tsum, top_left is
\* tsum, size is (width, height) and bottom_right is tsum + (width, height).
C16_Positions ==
    img /= NoImage =>
        /\ ImageTopLeft(img) = tsum
        /\ ImageSize(img) = Size(img.width, img.height)
        /\ ImageBottomRight(img)
             = Pt(tsum.x + img.width, tsum.y + img.height)

\* C16: the positions above always hold, and no step changes the size or
\* the encoded bytes of the image.
C16_TranslateSums ==
    /\ []C16_Positions
    /\ [][/\ ImageSize(img') = ImageSize(img)
          /\ img'.data = img.data
          /\ img'.bpp = img.bpp]_vars

C16_Witness ==
    /\ img /= NoImage
    /\ tsum = Pt(-1, 1)
    /\ ImageTopLeft(img) = Pt(-1, 1)
    /\ ImageSize(img) = Size(3, 2)
    /\ ImageBottomRight(img) = Pt(2, 3)

-----------------------------------------------------------------------------
(* Properties of the line's geometry and style *)

\* The bounding box does not depend on the order of the endpoints, and
\* top_left is their componentwise minimum.
BoundingBoxNormalised ==
    /\ LineTopLeft(line) = LineTopLeft(Reversed(line))
    /\ LineBottomRight(line) = LineBottomRight(Reversed(line))
    /\ LineSize(line) = LineSize(Reversed(line))
    /\ LineTopLeft(line).x <= line.start.x /\ LineTopLeft(line).x <= line.end.x
    /\ LineTopLeft(line).y <= line.start.y /\ LineTopLeft(line).y <= line.end.y
    /\ LineTopLeft(line).x \in {line.start.x, line.end.x}
    /\ LineTopLeft(line).y \in {line.start.y, line.end.y}

\* C15, as stated: the bounding box is independent of the endpoint order,
\* top_left is the componentwise minimum and size is
\* (|x1 - x0| + 1, |y1 - y0| + 1).
C15_SizePlusOne ==
    line /= NoLine =>
        /\ BoundingBoxNormalised
        /\ LineSize(line) = Size(Abs(line.end.x - line.start.x) + 1,
                                 Abs(line.end.y - line.start.y) + 1)

\* C15, amended: the bounding box is independent of the endpoint order,
\* top_left is the componentwise minimum, size is (|x1 - x0|, |y1 - y0|)
\* and bottom_right is the componentwise maximum.
C15_BoundingBox ==
    line /= NoLine =>
        /\ BoundingBoxNormalised
        /\ LineSize(line) = Size(Abs(line.end.x - line.start.x),
                                 Abs(line.end.y - line.start.y))
        /\ LineBottomRight(line) = Pt(Max(line.start.x, line.end.x),
                                      Max(line.start.y, line.end.y))

C15_Witness ==
    /\ line /= NoLine
    /\ line.start.x > line.end.x
    /\ line.start.y < line.end.y
    /\ LineTopLeft(line) = Pt(line.end.x, line.start.y)
    /\ LineSize(line) = Size(2, 3)

\* C17: translate returns the line with by added to start and to end and
\* the same style, and leaves the original alone; translate_mut changes the
\* line in place to what translate would return, and nothing else.
C17_TranslateGeometric ==
    /\ [](moved /= NoLine =>
            /\ moved.start = Pt(line.start.x + by.x, line.start.y + by.y)
            /\ moved.end = Pt(line.end.x + by.x, line.end.y + by.y)
            /\ moved.style = line.style)
    /\ [][(\E d \in Offsets : Translate(d)) => line' = line]_vars
    /\ [][(\E d \in Offsets : TranslateMut(d)) =>
            \E d \in Offsets :
                /\ line' = LineTranslate(line, d)
                /\ line'.start = Pt(line.start.x + d.x, line.start.y + d.y)
                /\ line'.end = Pt(line.end.x + d.x, line.end.y + d.y)
                /\ line'.style = line.style
                /\ UNCHANGED <<moved, by, it, src, out, ret>>]_vars

C17_Witness ==
    /\ moved /= NoLine
    /\ by = Pt(-2, 1)
    /\ line.start = Pt(2, -1)
    /\ line.end = Pt(1, 1)
    /\ StrokePresent(line)
    /\ moved.start = Pt(0, 0)

\* C18: for start /= end and a present stroke colour the producer
\* terminates: it comes to emit end, its cursor never leaves the box
\* between start and end before it has stopped, and once it has returned
\* None it returns None ever after.
C18_Terminates ==
    /\ (it /= NoIter /\ StrokePresent(src) /\ src.start /= src.end)
          ~> (Exhausted /\ Len(out) >= 1 /\ out[Len(out)].p = src.end)
    /\ []((it /= NoIter /\ StrokePresent(src) /\ src.start /= src.end
           /\ ~it.stop) =>
            /\ Min(src.start.x, src.end.x) <= it.start.x
            /\ it.start.x <= Max(src.start.x, src.end.x)
            /\ Min(src.start.y, src.end.y) <= it.start.y
            /\ it.start.y <= Max(src.start.y, src.end.y))
    /\ [][Exhausted => (ret' = NoItem /\ out' = out)]_vars

C18_Witness ==
    /\ Exhausted
    /\ StrokePresent(src)
    /\ Len(out) >= 4
    /\ out[Len(out)].p = src.end
    /\ it.stop

\* The line mirrored in x, and in y, about its start.
MirrorX(l) == [l EXCEPT !.end = Pt(2 * l.start.x - l.end.x, l.end.y)]

MirrorY(l) == [l EXCEPT !.end = Pt(l.end.x, 2 * l.start.y - l.end.y)]

\* C19: the sequence of the line mirrored in x about its start is the
\* sequence of the line with every pixel mirrored in x, and likewise in y.
C19_MirrorSymmetric ==
    (Exhausted /\ StrokePresent(src)) =>
        /\ FullRun(MirrorX(src))
             = [k \in 1..Len(out) |->
                  Pixel(Pt(2 * src.start.x - out[k].p.x, out[k].p.y), out[k].c)]
        /\ FullRun(MirrorY(src))
             = [k \in 1..Len(out) |->
                  Pixel(Pt(out[k].p.x, 2 * src.start.y - out[k].p.y), out[k].c)]

C19_Witness ==
    /\ Exhausted
    /\ StrokePresent(src)
    /\ Len(out) >= 3
    /\ src.start.x /= src.end.x
    /\ src.start.y /= src.end.y
    /\ Abs(src.start.x - src.end.x) < Abs(src.start.y - src.end.y)

\* The coordinates of a pixel sequence, in order.
CoordSeq(seq) == [k \in 1..Len(seq) |-> seq[k].p]

\* C20: the coordinates emitted depend only on start, end and the presence
\* of a stroke colour, not on stroke_width or fill_color, and every pixel
\* carries the stroke colour.
C20_WidthAndFillInert ==
    Exhausted =>
        /\ CoordSeq(out)
             = CoordSeq(FullRun(WithStrokeColor(
                   LineNew(src.start, src.end),
                   IF StrokePresent(src) THEN "On" ELSE None)))
        /\ \A k \in 1..Len(out) : out[k].c = src.style.stroke_color

C20_Witness ==
    /\ Exhausted
    /\ src.style.stroke_width = 0
    /\ src.style.fill_color = "On"
    /\ src.style.stroke_color = "Off"
    /\ Len(out) >= 3

-----------------------------------------------------------------------------
(* Properties of chained producers *)

\* What the two producers of the chain emit when each runs alone, the
\* first's pixels followed by the second's.
Standalone == FullRun(ch.la) \o FullRun(ch.lb)

-----------------------------------------------------------------------------
(* Properties of several producers of one image *)

\* Everything a fresh iterator of the image returns before its first None.
ImageFullRun(im) == ImageCollect(ImageIntoIter(im), im, MaxFuel)

\* What a producer has returned is the beginning of the image's full run,
\* and all of it once the producer has returned None.
RunsAsAlone(pr) ==
    /\ Len(pr.out) <= Len(ImageFullRun(img))
    /\ \A q \in 1..Len(pr.out) : pr.out[q] = ImageFullRun(img)[q]
    /\ pr.ret = NoItem => pr.out = ImageFullRun(img)

\* C21: producers made from the same image and advanced in any interleaving
\* each emit exactly what they emit when run alone; a step of one producer
\* returns what its own x, y and cursor determine, and changes neither the
\* image (its bytes, header and offset) nor any other producer.
C21_ProducersIndependent ==
    /\ [](\A k \in Producers : prods[k].it /= NoIter => RunsAsAlone(prods[k]))
    /\ [][\A k \in Producers :
            (prods[k].it /= NoIter /\ prods'[k] /= prods[k]) =>
                /\ img' = img
                /\ \A j \in Producers \ {k} : prods'[j] = prods[j]
                /\ prods'[k].ret = ImageNext(prods[k].it, img).item]_vars

C21_Witness ==
    /\ prods[1].ret = NoItem
    /\ Len(prods[1].out) >= 4
    /\ prods[2].it /= NoIter
    /\ Len(prods[2].out) = 2
    /\ prods[2].it.pos /= prods[1].it.pos
    /\ img.height = 2

-----------------------------------------------------------------------------
(* Properties of a line changed under its producer *)

\* C22: a line producer works on the geometry its line had when it was
\* made: whatever translate_mut does to the line while the producer is
\* partly consumed, the producer returns the beginning of, and at None
\* the whole of, the full run of the line as it was; a change of the line
\* leaves the producer as it is, and a call of next leaves the line as it
\* is, so every fresh producer of a line replays that line's full run.
C22_Snapshot ==
    /\ [](it /= NoIter =>
            /\ Len(out) <= Len(FullRun(src))
            /\ \A k \in 1..Len(out) : out[k] = FullRun(src)[k]
            /\ ret = NoItem => out = FullRun(src))
    /\ [][/\ (it /= NoIter /\ line' /= line) =>
                (it' = it /\ out' = out /\ ret' = ret /\ src' = src)
          /\ (it /= NoIter /\ (ret' /= ret \/ out' /= out)) => line' = line]_vars

C22_Witness ==
    /\ Exhausted
    /\ StrokePresent(src)
    /\ line /= src
    /\ line.start /= src.start
    /\ Len(out) >= 3
    /\ out[Len(out)].p = src.end
    /\ out[Len(out)].p /= line.end

-----------------------------------------------------------------------------
(* Properties of the shape of a line *)

\* Two points are neighbours: they differ, by at most 1 in x and in y.
Adjacent(a, b) == a /= b /\ Abs(a.x - b.x) <= 1 /\ Abs(a.y - b.y) <= 1

\* C23: for every line with start /= end and a present stroke colour,
\* consecutive pixels are neighbours and never equal, no coordinate is
\* emitted twice, and the number of pixels is
\* max(|end.x - start.x|, |end.y - start.y|) + 1.
C23_ConnectedNoRepeat ==
    (Exhausted /\ StrokePresent(src) /\ src.start /= src.end) =>
        /\ \A k \in 1..(Len(out) - 1) : Adjacent(out[k].p, out[k + 1].p)
        /\ \A j \in 1..Len(out), k \in 1..Len(out) :
              j /= k => out[j].p /= out[k].p
        /\ Len(out) = Max(Abs(src.end.x - src.start.x),
                          Abs(src.end.y - src.start.y)) + 1

C23_Witness ==
    /\ Exhausted
    /\ StrokePresent(src)
    /\ Len(out) = 5
    /\ \E k \in 1..4 : out[k].p.x /= out[k + 1].p.x /\ out[k].p.y /= out[k + 1].p.y
    /\ \E k \in 1..4 : out[k].p.x = out[k + 1].p.x \/ out[k].p.y = out[k + 1].p.y

-----------------------------------------------------------------------------
(* Properties of the simulator display *)

\* The size the display was built with.
BuiltSize == Size(drawn[1].p.x, drawn[1].p.y)

\* The coordinate lies on the display.
OnDisplay(pt) ==
    /\ 0 <= pt.x /\ pt.x < BuiltSize.width
    /\ 0 <= pt.y /\ pt.y < BuiltSize.height

\* The colour of the last of the first n requests that drew at pt, or Off
\* if none did.
RECURSIVE LastDrawnAt(_, _)
LastDrawnAt(pt, n) ==
    IF n = 0
    THEN "Off"
    ELSE IF drawn[n].op = "draw" /\ drawn[n].p = pt
         THEN drawn[n].c
         ELSE LastDrawnAt(pt, n - 1)

\* C24: after any sequence of draw_pixel calls every cell (x, y) of the
\* display holds the colour of the last pixel drawn at (x, y), or Off/black
\* if none was; a pixel at a negative coordinate or beyond the width or
\* height changes no cell and causes no panic; the buffer always has
\* width * height cells.
C24_LastWriterWinsInBounds ==
    disp /= NoDisplay =>
        /\ ~dpanicked
        /\ Len(disp.pixels.data) = BuiltSize.width * BuiltSize.height
        /\ \A x \in 0..(BuiltSize.width - 1), y \in 0..(BuiltSize.height - 1) :
              PixelDataGet(disp.pixels, x, y)
                = IntoCell(disp.kind, LastDrawnAt(Pt(x, y), Len(drawn)))

C24_Witness ==
    /\ disp /= NoDisplay
    /\ Len(drawn) = 4
    /\ OnDisplay(drawn[2].p)
    /\ drawn[3].p = drawn[2].p
    /\ drawn[3].c /= drawn[2].c
    /\ drawn[4].op = "draw"
    /\ drawn[4].p.x < 0
    /\ OnDisplay(Pt(-drawn[4].p.x, drawn[4].p.y))
    /\ PixelDataGet(disp.pixels, drawn[2].p.x, drawn[2].p.y)
         = IntoCell(disp.kind, drawn[3].c)

\* C25: clear() resets every cell of the buffer to Off/black whatever was
\* drawn before, and the display's width, height and size() stay what the
\* display was built with.
C25_ClearResets ==
    disp /= NoDisplay =>
        /\ DisplaySize(disp) = BuiltSize
        /\ drawn[Len(drawn)].op = "clear" =>
              /\ Len(disp.pixels.data) = BuiltSize.width * BuiltSize.height
              /\ \A k \in 1..Len(disp.pixels.data) :
                    disp.pixels.data[k] = DisplayOff(disp.kind)

C25_Witness ==
    /\ disp /= NoDisplay
    /\ Len(drawn) = 4
    /\ drawn[2].op = "draw" /\ drawn[2].c = "On" /\ OnDisplay(drawn[2].p)
    /\ drawn[3].op = "draw" /\ drawn[3].c /= "Off" /\ OnDisplay(drawn[3].p)
    /\ drawn[3].p.y = 1
    /\ drawn[4].op = "clear"
    /\ BuiltSize.width = 2

====
